---- MODULE Spec2Model ----
(***************************************************************************)
(* Model of django_mobile/loader.py: the flavour-aware template loaders.   *)
(*                                                                         *)
(* CachedLoader keeps a dictionary template_cache from cache key to        *)
(* compiled template, resolves its delegate loaders lazily, and probes     *)
(* them for the flavoured name and then the original name.  Loader is the  *)
(* simple non-caching variant.                                             *)
(*                                                                         *)
(* Python values are represented as follows.  None is the empty tuple <<>> *)
(* and a present value v is <<v>> wherever a value may be None (the        *)
(* flavour, an origin, a returned template, a raised exception).  Strings  *)
(* are TLA+ strings and + / % formatting is string concatenation.          *)
(***************************************************************************)
EXTENDS Integers, Sequences, FiniteSets, TLC

\* Longest directory sequence a caller passes as template_dirs.
MaxDirs == 1

\* Template names callers ask for.
Names == {"a"}

\* Template names passed to prepare_template_name alone.
PlainNames == Names \cup {"index.html", "m/a"}

\* Execution contexts that share one CachedLoader.
Threads == {"t1", "t2"}

\* Values get_flavour() can return: None, the empty string, a flavour.
None == <<>>
Flavours == {None, <<"">>, <<"m">>}

\* Values of settings.FLAVOURS_TEMPLATE_PREFIX (default empty).
Prefixes == {"", "p/"}

\* Directory names.
DirNames == {"d"}

RECURSIVE SeqsUpTo(_, _)
SeqsUpTo(S, n) ==
    IF n = 0 THEN {<<>>}
    ELSE LET shorter == SeqsUpTo(S, n - 1)
         IN  shorter \cup {Append(s, x) : s \in {t \in shorter : Len(t) = n - 1}, x \in S}

\* template_dirs arguments; <<>> stands for both None and an empty list,
\* which the code treats alike ("if template_dirs:").
DirSeqs == SeqsUpTo(DirNames, MaxDirs)

\* Directory sequences for the cache key; "|" is an ordinary character of a
\* path.
KeyDirSeqs == {<<>>, <<"d">>, <<"e">>, <<"d", "e">>, <<"e", "d">>, <<"d|e">>}

\* The loader identifiers the CachedLoader is constructed with (_loaders).
ConfiguredLoaders == <<"fs", "app">>

\* find_template_loader(identifier): the host resolves an identifier to a
\* loader callable; the callable is the identifier tagged as a loader.
find_template_loader(id) == <<"loader", id>>

Loaders == {find_template_loader(ConfiguredLoaders[i]) : i \in DOMAIN ConfiguredLoaders}

\* What a delegate loader holds under a name: nothing, raw template source,
\* or an already compiled template (an object that has render).
Kinds == {"absent", "source", "compiled"}

VARIABLES
    flavour,          \* what get_flavour() returns now
    prefix,           \* settings.FLAVOURS_TEMPLATE_PREFIX
    store,            \* contents of the delegate loaders
    template_cache,   \* CachedLoader.template_cache
    cached_loaders,   \* CachedLoader._cached_loaders
    last,             \* the last call made on a loader and its outcome
    threads,          \* the load_template call each execution context is in
    source_capable    \* the delegate loaders that have load_template_source

vars == <<flavour, prefix, store, template_cache, cached_loaders, last, threads,
          source_capable>>

----------------------------------------------------------------------------
\* A test that takes every flavour but None for true.
Truthy_not_none(f) == f # None

\* Python truthiness of a flavour value: None and "" are false.
Truthy(f) == f # None /\ f[1] # ""

\* '%s' % f
Format(f) == IF f = None THEN "None" ELSE f[1]

\* A prepare_template_name that leaves the prefix out.
prepare_template_name_no_prefix(f, p, template_name) ==
    IF Truthy(f) THEN f[1] \o "/" \o template_name ELSE template_name

\* CachedLoader.prepare_template_name under flavour f and prefix p.
prepare_template_name(f, p, template_name) ==
    IF Truthy(f)
    THEN LET flavoured == f[1] \o "/" \o template_name
         IN  IF p # "" THEN p \o flavoured ELSE flavoured
    ELSE template_name

\* Loader.prepare_template_name under flavour f and prefix p.
Loader_prepare_template_name(f, p, template_name) ==
    LET flavoured == Format(f) \o "/" \o template_name
    IN  IF p # "" THEN p \o flavoured ELSE flavoured

\* Names a delegate loader can be asked for under prefix p.
ProbeNames(p) == Names \cup {prepare_template_name(f, p, n) : f \in Flavours, n \in Names}

----------------------------------------------------------------------------
\* A delegate loader called as loader(name, dirs): it has the template when
\* it holds something under that name, and raises TemplateDoesNotExist
\* otherwise.  dirs is passed through to the loader.
Has(loader, name) ==
    /\ name \in DOMAIN store[loader]
    /\ store[loader][name] # "absent"

\* The (template, display_name) pair a successful loader call returns.  A
\* template is identified by the loader and name it came from; render tells
\* whether the object has a render attribute (is compiled).
LoaderTemplate(loader, name) ==
    [loader |-> loader, name |-> name, render |-> store[loader][name] = "compiled"]

DisplayName(loader, name) == loader[2] \o ":" \o name

\* make_origin(display_name, loader, name, dirs): the origin the host builds
\* from these arguments.
make_origin(display_name, loader, name, dirs) ==
    [display_name |-> display_name, loader |-> loader, name |-> name, dirs |-> dirs]

\* get_template_from_string(template, origin, name) when it succeeds.
get_template_from_string(template) == [template EXCEPT !.render = TRUE]

\* The loaders property: resolve the configured identifiers into
\* _cached_loaders when that list is empty, then return the list.
loaders(cached) ==
    IF cached = <<>>
    THEN [i \in DOMAIN ConfiguredLoaders |-> find_template_loader(ConfiguredLoaders[i])]
    ELSE cached

\* One call of a delegate loader, as recorded in the probe trace.
Probe(loader, name, dirs) == [loader |-> loader, name |-> name, dirs |-> dirs]

\* A find_template that tries every loader with the flavoured name before it
\* tries any loader with the original name (position i runs over both
\* passes).
RECURSIVE find_flavoured_first(_, _, _, _, _, _)
find_flavoured_first(ls, i, name, flavoured_name, dirs, probes) ==
    IF i > 2 * Len(ls)
    THEN [template |-> None, origin |-> None, raised |-> <<name>>, probes |-> probes]
    ELSE LET loader == IF i > Len(ls) THEN ls[i - Len(ls)] ELSE ls[i]
             tried  == IF i > Len(ls) THEN name ELSE flavoured_name
             called == Append(probes, Probe(loader, tried, dirs))
         IN  IF Has(loader, tried)
             THEN [template |-> <<LoaderTemplate(loader, tried)>>,
                   origin   |-> <<make_origin(DisplayName(loader, tried),
                                              loader, tried, dirs)>>,
                   raised   |-> None,
                   probes   |-> called]
             ELSE find_flavoured_first(ls, i + 1, name, flavoured_name, dirs, called)

\* A find_template that never falls back to the original name.
RECURSIVE find_flavoured_only(_, _, _, _, _, _)
find_flavoured_only(ls, i, name, flavoured_name, dirs, probes) ==
    IF i > Len(ls)
    THEN [template |-> None, origin |-> None, raised |-> <<name>>, probes |-> probes]
    ELSE LET loader == ls[i]
             first  == Append(probes, Probe(loader, flavoured_name, dirs))
         IN  IF Has(loader, flavoured_name)
             THEN [template |-> <<LoaderTemplate(loader, flavoured_name)>>,
                   origin   |-> <<make_origin(DisplayName(loader, flavoured_name),
                                              loader, flavoured_name, dirs)>>,
                   raised   |-> None,
                   probes   |-> first]
             ELSE find_flavoured_only(ls, i + 1, name, flavoured_name, dirs, first)

\* A find_template that gives up when the first loader has neither name.
find_first_loader_only(ls, i, name, flavoured_name, dirs, probes) ==
    IF i > Len(ls)
    THEN [template |-> None, origin |-> None, raised |-> <<name>>, probes |-> probes]
    ELSE LET loader == ls[i]
             first  == Append(probes, Probe(loader, flavoured_name, dirs))
             second == Append(first, Probe(loader, name, dirs))
         IN  IF Has(loader, flavoured_name)
             THEN [template |-> <<LoaderTemplate(loader, flavoured_name)>>,
                   origin   |-> <<make_origin(DisplayName(loader, flavoured_name),
                                              loader, flavoured_name, dirs)>>,
                   raised   |-> None,
                   probes   |-> first]
             ELSE IF Has(loader, name)
             THEN [template |-> <<LoaderTemplate(loader, name)>>,
                   origin   |-> <<make_origin(DisplayName(loader, name),
                                              loader, name, dirs)>>,
                   raised   |-> None,
                   probes   |-> second]
             ELSE [template |-> None, origin |-> None, raised |-> <<name>>,
                   probes |-> second]

\* The loop of CachedLoader.find_template from position i of the loader
\* list ls on, having made the calls in probes so far.
RECURSIVE find_from(_, _, _, _, _, _)
find_from(ls, i, name, flavoured_name, dirs, probes) ==
    IF i > Len(ls)
    THEN [template |-> None, origin |-> None, raised |-> <<name>>, probes |-> probes]
    ELSE LET loader == ls[i]
             first  == Append(probes, Probe(loader, flavoured_name, dirs))
             second == Append(first, Probe(loader, name, dirs))
         IN  IF Has(loader, flavoured_name)
             THEN [template |-> <<LoaderTemplate(loader, flavoured_name)>>,
                   origin   |-> <<make_origin(DisplayName(loader, flavoured_name),
                                              loader, flavoured_name, dirs)>>,
                   raised   |-> None,
                   probes   |-> first]
             ELSE IF Has(loader, name)
             THEN [template |-> <<LoaderTemplate(loader, name)>>,
                   origin   |-> <<make_origin(DisplayName(loader, name),
                                              loader, name, dirs)>>,
                   raised   |-> None,
                   probes   |-> second]
             ELSE find_from(ls, i + 1, name, flavoured_name, dirs, second)

\* CachedLoader.find_template(name, dirs) over the loader list ls, under
\* flavour f and prefix p.
find_template(ls, f, p, name, dirs) ==
    find_from(ls, 1, name, prepare_template_name(f, p, name), dirs, <<>>)

\* '|'.join(dirs)
RECURSIVE Join(_)
Join(dirs) ==
    IF Len(dirs) = 0 THEN ""
    ELSE IF Len(dirs) = 1 THEN dirs[1]
    ELSE dirs[1] \o "|" \o Join(Tail(dirs))

\* sha_constructor(s).hexdigest(): a digest of the string, taken to be free
\* of collisions (different strings have different digests).
Hexdigest(s) == "sha1(" \o s \o ")"

\* The cache key CachedLoader.load_template computes.
CacheKey(f, p, template_name, template_dirs) ==
    IF template_dirs # <<>>
    THEN template_name \o "-" \o Hexdigest(Join(template_dirs))
    ELSE prepare_template_name(f, p, template_name)

\* A membership test that never finds the key.
InCache_never(cache, key) == FALSE

\* key in self.template_cache
InCache(cache, key) == key \in DOMAIN cache

\* An assignment that drops every other entry.
Put_alone(cache, key, value) == [k \in {key} |-> value]

\* self.template_cache[key] = value
Put(cache, key, value) ==
    [k \in DOMAIN cache \cup {key} |-> IF k = key THEN value ELSE cache[k]]

\* {} and self.template_cache.clear()
EmptyCache == [k \in {} |-> None]

\* A miss that stores whatever the probe returned, compiled or not.
AfterProbe_stores_raw(template, origin, compile_ok) ==
    IF template.render
    THEN [store |-> TRUE, compile |-> "none", template |-> template, origin |-> None]
    ELSE IF compile_ok
    THEN [store |-> TRUE, compile |-> "ok",
          template |-> get_template_from_string(template), origin |-> None]
    ELSE [store |-> TRUE, compile |-> "failed", template |-> template, origin |-> <<origin>>]

\* A miss that stores raw source without compiling it.
AfterProbe_skips_compile(template, origin, compile_ok) ==
    IF template.render \/ compile_ok
    THEN [store |-> TRUE, compile |-> "none", template |-> template, origin |-> None]
    ELSE [store |-> FALSE, compile |-> "failed", template |-> template, origin |-> <<origin>>]

\* What load_template does with the probe's (template, origin) on a miss:
\* a template that has render is stored as it is; raw source is compiled
\* and stored, or, when the compile step raises TemplateDoesNotExist,
\* returned with its origin and not stored.
AfterProbe(template, origin, compile_ok) ==
    IF template.render
    THEN [store |-> TRUE, compile |-> "none", template |-> template, origin |-> None]
    ELSE IF compile_ok
    THEN [store |-> TRUE, compile |-> "ok",
          template |-> get_template_from_string(template), origin |-> None]
    ELSE [store |-> FALSE, compile |-> "failed", template |-> template, origin |-> <<origin>>]

----------------------------------------------------------------------------
\* The record of a call: its arguments, the flavour it ran under, the cache
\* it found, and what it did and returned.
Call(op) ==
    [op |-> op, name |-> "", dirs |-> <<>>, flavour |-> flavour, key |-> "",
     hit |-> FALSE, probes |-> <<>>, compile |-> "none",
     template |-> None, origin |-> None, raised |-> None, text |-> "",
     before |-> template_cache, again |-> FALSE, evicted |-> FALSE, retry |-> FALSE]

Stores(p) == [Loaders -> [ProbeNames(p) -> Kinds]]

\* Loader contents in which every loader holds every name in the same way.
UniformStores(p) == {[l \in Loaders |-> [n \in ProbeNames(p) |-> k]] : k \in Kinds}

\* An execution context that is not inside a load_template call.
Idle ==
    [pc |-> "idle", name |-> "", dirs |-> <<>>, flavour |-> None, key |-> "",
     hit |-> FALSE, i |-> 0, template |-> None, origin |-> None, raised |-> None]

Init ==
    /\ flavour \in Flavours
    /\ prefix \in Prefixes
    /\ store \in Stores(prefix)
    /\ template_cache = EmptyCache
    /\ cached_loaders = <<>>
    /\ last = Call("init")
    /\ threads = [t \in Threads |-> Idle]
    /\ source_capable = Loaders

\* The request context changes: get_flavour() returns another value.
SetFlavour(f) ==
    /\ f # flavour
    /\ flavour' = f
    /\ UNCHANGED <<source_capable, prefix, store, template_cache, cached_loaders, last, threads>>

\* CachedLoader.prepare_template_name(template_name)
PrepareTemplateName(template_name) ==
    /\ last' = [Call("prepare_template_name") EXCEPT
                   !.name = template_name,
                   !.text = prepare_template_name(flavour, prefix, template_name)]
    /\ UNCHANGED <<source_capable, flavour, prefix, store, template_cache, cached_loaders, threads>>

\* Loader.prepare_template_name(template_name)
LoaderPrepareTemplateName(template_name) ==
    /\ last' = [Call("Loader.prepare_template_name") EXCEPT
                   !.name = template_name,
                   !.text = Loader_prepare_template_name(flavour, prefix, template_name)]
    /\ UNCHANGED <<source_capable, flavour, prefix, store, template_cache, cached_loaders, threads>>

\* CachedLoader.find_template(name, dirs)
FindTemplate(name, dirs) ==
    LET ls == loaders(cached_loaders)
        r  == find_template(ls, flavour, prefix, name, dirs)
    IN  /\ cached_loaders' = ls
        /\ last' = [Call("find_template") EXCEPT
                       !.name = name, !.dirs = dirs,
                       !.probes = r.probes, !.template = r.template,
                       !.origin = r.origin, !.raised = r.raised]
        /\ UNCHANGED <<source_capable, flavour, prefix, store, template_cache, threads>>

\* CachedLoader.load_template(template_name, template_dirs).  compile_ok is
\* whether the host compile step succeeds, should the call reach it.
LoadTemplate(template_name, template_dirs, compile_ok) ==
    LET key  == CacheKey(flavour, prefix, template_name, template_dirs)
        call == [Call("load_template") EXCEPT
                    !.name = template_name, !.dirs = template_dirs, !.key = key,
                    !.again = /\ last.op = "load_template"
                              /\ last.name = template_name
                              /\ last.dirs = template_dirs,
                    !.evicted = /\ last.op = "reset"
                                /\ key \in DOMAIN last.before,
                    !.retry = /\ last.op = "load_template"
                              /\ last.raised # None
                              /\ last.key = key]
    IN  /\ IF InCache(template_cache, key)
           THEN /\ last' = [call EXCEPT !.hit = TRUE,
                                        !.template = <<template_cache[key]>>]
                /\ UNCHANGED <<template_cache, cached_loaders>>
           ELSE LET ls == loaders(cached_loaders)
                    r  == find_template(ls, flavour, prefix, template_name, template_dirs)
                    found == [call EXCEPT !.probes = r.probes]
                IN  /\ cached_loaders' = ls
                    /\ IF r.raised # None
                       THEN /\ last' = [found EXCEPT !.raised = r.raised]
                            /\ UNCHANGED template_cache
                       ELSE LET a == AfterProbe(r.template[1], r.origin[1], compile_ok)
                            IN  IF a.store
                                THEN LET cache == Put(template_cache, key, a.template)
                                     IN  /\ template_cache' = cache
                                         /\ last' = [found EXCEPT
                                                        !.compile = a.compile,
                                                        !.template = <<cache[key]>>]
                                ELSE /\ last' = [found EXCEPT
                                                    !.compile = a.compile,
                                                    !.template = <<a.template>>,
                                                    !.origin = a.origin]
                                     /\ UNCHANGED template_cache
        /\ UNCHANGED <<source_capable, flavour, prefix, store, threads>>

\* A reset that leaves the entries in place.
Reset_keeps ==
    /\ last' = Call("reset")
    /\ UNCHANGED <<source_capable, flavour, prefix, store, template_cache, cached_loaders, threads>>

\* CachedLoader.reset()
Reset ==
    /\ template_cache' = EmptyCache
    /\ last' = Call("reset")
    /\ UNCHANGED <<source_capable, flavour, prefix, store, cached_loaders, threads>>

Next ==
    \/ \E f \in Flavours : SetFlavour(f)
    \/ \E n \in PlainNames : PrepareTemplateName(n)
    \/ \E n \in PlainNames : LoaderPrepareTemplateName(n)
    \/ \E n \in Names, d \in DirSeqs : FindTemplate(n, d)
    \/ \E n \in Names, d \in DirSeqs, ok \in BOOLEAN : LoadTemplate(n, d, ok)
    \/ Reset

Spec == Init /\ [][Next]_vars

----------------------------------------------------------------------------
\* The cache key over a wider range of directory sequences, with uniform
\* loader contents.
InitKeys ==
    /\ flavour \in Flavours
    /\ prefix \in Prefixes
    /\ store \in UniformStores(prefix)
    /\ template_cache = EmptyCache
    /\ cached_loaders = <<>>
    /\ last = Call("init")
    /\ threads = [t \in Threads |-> Idle]
    /\ source_capable = Loaders

NextKeys ==
    \/ \E f \in Flavours : SetFlavour(f)
    \/ \E n \in Names, d \in KeyDirSeqs, ok \in BOOLEAN : LoadTemplate(n, d, ok)
    \/ Reset

KeySpec == InitKeys /\ [][NextKeys]_vars

----------------------------------------------------------------------------
\* Templates appear in the delegate loaders while the CachedLoader is in
\* use: a loader that had nothing under a name now has a template there.
AddTemplate(loader, name, kind) ==
    /\ store[loader][name] = "absent"
    /\ store' = [store EXCEPT ![loader][name] = kind]
    /\ UNCHANGED <<source_capable, flavour, prefix, template_cache, cached_loaders, last, threads>>

\* A new CachedLoader over loaders that hold no template yet, with no
\* FLAVOURS_TEMPLATE_PREFIX set.
InitDeploy ==
    /\ flavour \in Flavours
    /\ prefix = ""
    /\ store = [l \in Loaders |-> [n \in ProbeNames(prefix) |-> "absent"]]
    /\ template_cache = EmptyCache
    /\ cached_loaders = <<>>
    /\ last = Call("init")
    /\ threads = [t \in Threads |-> Idle]
    /\ source_capable = Loaders

NextDeploy ==
    \/ \E f \in Flavours : SetFlavour(f)
    \/ \E n \in Names, d \in DirSeqs, ok \in BOOLEAN : LoadTemplate(n, d, ok)
    \/ Reset
    \/ \E l \in Loaders, n \in ProbeNames(prefix), k \in Kinds \ {"absent"} :
           AddTemplate(l, n, k)

DeploySpec == InitDeploy /\ [][NextDeploy]_vars

----------------------------------------------------------------------------
\* The simple Loader.  Loader.__init__ resolves the identifiers of
\* settings.FLAVOURS_TEMPLATE_LOADERS into template_source_loaders.
template_source_loaders ==
    [i \in DOMAIN ConfiguredLoaders |-> find_template_loader(ConfiguredLoaders[i])]

\* The exception the simple Loader raises.
Tried(template_name) == <<"Tried " \o template_name>>

\* A loop that calls load_template_source on every loader, whether it has
\* it or not.
RECURSIVE Loader_loop_no_skip(_, _, _, _, _, _)
Loader_loop_no_skip(ls, i, template_name, dirs, source, probes) ==
    IF i > Len(ls)
    THEN [template |-> None, text |-> "", raised |-> Tried(template_name), probes |-> probes]
    ELSE LET called == Append(probes, Probe(ls[i], template_name, dirs))
         IN  IF Has(ls[i], template_name)
             THEN [template |-> <<IF source
                                  THEN [loader |-> ls[i], name |-> template_name,
                                        render |-> FALSE]
                                  ELSE LoaderTemplate(ls[i], template_name)>>,
                   text     |-> DisplayName(ls[i], template_name),
                   raised   |-> None,
                   probes   |-> called]
             ELSE Loader_loop_no_skip(ls, i + 1, template_name, dirs, source, called)

\* The loops of Loader.load_template (source FALSE) and
\* Loader.load_template_source (source TRUE) from position i of the loader
\* list ls on, with the prepared name: the first loader that has the name
\* answers; load_template_source passes over a loader that has no
\* load_template_source and returns raw source.
RECURSIVE Loader_loop(_, _, _, _, _, _)
Loader_loop(ls, i, template_name, dirs, source, probes) ==
    IF i > Len(ls)
    THEN [template |-> None, text |-> "", raised |-> Tried(template_name), probes |-> probes]
    ELSE IF source /\ ls[i] \notin source_capable
    THEN Loader_loop(ls, i + 1, template_name, dirs, source, probes)
    ELSE LET called == Append(probes, Probe(ls[i], template_name, dirs))
         IN  IF Has(ls[i], template_name)
             THEN [template |-> <<IF source
                                  THEN [loader |-> ls[i], name |-> template_name,
                                        render |-> FALSE]
                                  ELSE LoaderTemplate(ls[i], template_name)>>,
                   text     |-> DisplayName(ls[i], template_name),
                   raised   |-> None,
                   probes   |-> called]
             ELSE Loader_loop(ls, i + 1, template_name, dirs, source, called)

\* Loader.load_template(template_name, template_dirs)
LoaderLoadTemplate(template_name, template_dirs) ==
    LET r == Loader_loop(template_source_loaders, 1,
                         Loader_prepare_template_name(flavour, prefix, template_name),
                         template_dirs, FALSE, <<>>)
    IN  /\ last' = [Call("Loader.load_template") EXCEPT
                       !.name = template_name, !.dirs = template_dirs,
                       !.probes = r.probes, !.template = r.template,
                       !.text = r.text, !.raised = r.raised]
        /\ UNCHANGED <<source_capable, flavour, prefix, store, template_cache,
                       cached_loaders, threads>>

\* Loader.load_template_source(template_name, template_dirs)
LoaderLoadTemplateSource(template_name, template_dirs) ==
    LET r == Loader_loop(template_source_loaders, 1,
                         Loader_prepare_template_name(flavour, prefix, template_name),
                         template_dirs, TRUE, <<>>)
    IN  /\ last' = [Call("Loader.load_template_source") EXCEPT
                       !.name = template_name, !.dirs = template_dirs,
                       !.probes = r.probes, !.template = r.template,
                       !.text = r.text, !.raised = r.raised]
        /\ UNCHANGED <<source_capable, flavour, prefix, store, template_cache,
                       cached_loaders, threads>>

\* Names the simple Loader can ask a delegate loader for under prefix p,
\* and the original names, which it does not ask for.
LoaderProbeNames(p) ==
    Names \cup {Loader_prepare_template_name(f, p, n) : f \in Flavours, n \in Names}

InitLoader ==
    /\ flavour \in Flavours
    /\ prefix \in Prefixes
    /\ store \in [Loaders -> [LoaderProbeNames(prefix) -> {"absent", "source"}]]
    /\ template_cache = EmptyCache
    /\ cached_loaders = <<>>
    /\ last = Call("init")
    /\ threads = [t \in Threads |-> Idle]
    /\ source_capable \in SUBSET Loaders

NextLoader ==
    \/ \E f \in Flavours : SetFlavour(f)
    \/ \E n \in PlainNames : LoaderPrepareTemplateName(n)
    \/ \E n \in Names, d \in DirSeqs : LoaderLoadTemplate(n, d)
    \/ \E n \in Names, d \in DirSeqs : LoaderLoadTemplateSource(n, d)

LoaderSpec == InitLoader /\ [][NextLoader]_vars

----------------------------------------------------------------------------
\* Several execution contexts call load_template and reset on one
\* CachedLoader.  Nothing in the code locks the cache, so a call is a
\* sequence of steps that other contexts' steps can come between; the
\* flavour belongs to the calling context and is fixed for a call.

\* load_template is entered: lines 112-117 compute the key.
TBegin(t, template_name, template_dirs, f) ==
    /\ threads[t].pc \in {"idle", "done"}
    /\ threads' = [threads EXCEPT ![t] =
                      [Idle EXCEPT !.pc = "check", !.name = template_name,
                                   !.dirs = template_dirs, !.flavour = f,
                                   !.key = CacheKey(f, prefix, template_name, template_dirs)]]
    /\ UNCHANGED <<source_capable, flavour, prefix, store, template_cache, cached_loaders, last>>

\* Line 119: the membership test.
TCheck(t) ==
    /\ threads[t].pc = "check"
    /\ threads' = [threads EXCEPT ![t] =
                      IF InCache(template_cache, threads[t].key)
                      THEN [@ EXCEPT !.pc = "return", !.hit = TRUE]
                      ELSE [@ EXCEPT !.pc = "probe"]]
    /\ UNCHANGED <<source_capable, flavour, prefix, store, template_cache, cached_loaders, last>>

\* Line 121 calls find_template, whose loop header (line 97) reads the
\* loaders property.  Line 72: the property tests whether _cached_loaders is
\* empty; an empty list is filled first, a non-empty one is returned as it
\* is.
TLoaders(t) ==
    /\ threads[t].pc = "probe"
    /\ threads' = [threads EXCEPT ![t] =
                      IF cached_loaders = <<>>
                      THEN [@ EXCEPT !.pc = "resolve", !.i = 1]
                      ELSE [@ EXCEPT !.pc = "find", !.i = 1]]
    /\ UNCHANGED <<source_capable, flavour, prefix, store, template_cache, cached_loaders, last>>

\* Lines 73-75: one round of the loop that resolves the i-th configured
\* identifier and appends the loader; after the last round the property
\* returns the list.
TResolve(t) ==
    /\ threads[t].pc = "resolve"
    /\ cached_loaders' =
           Append(cached_loaders, find_template_loader(ConfiguredLoaders[threads[t].i]))
    /\ threads' = [threads EXCEPT ![t] =
                      IF threads[t].i = Len(ConfiguredLoaders)
                      THEN [@ EXCEPT !.pc = "find", !.i = 1]
                      ELSE [@ EXCEPT !.i = @ + 1]]
    /\ UNCHANGED <<source_capable, flavour, prefix, store, template_cache, last>>

\* Lines 97-108: one round of find_template's loop over the list the
\* property returned, which is _cached_loaders itself: the loop ends, and
\* find_template raises, when position i is past the end of the list as it
\* is now.
TFind(t) ==
    /\ threads[t].pc = "find"
    /\ threads' = [threads EXCEPT ![t] =
           IF threads[t].i > Len(cached_loaders)
           THEN [@ EXCEPT !.pc = "done", !.raised = <<threads[t].name>>]
           ELSE LET r == find_template(<<cached_loaders[threads[t].i]>>, threads[t].flavour,
                                       prefix, threads[t].name, threads[t].dirs)
                IN  IF r.raised # None
                    THEN [@ EXCEPT !.i = @ + 1]
                    ELSE [@ EXCEPT !.pc = "compile", !.template = r.template,
                                   !.origin = r.origin]]
    /\ UNCHANGED <<source_capable, flavour, prefix, store, template_cache, cached_loaders, last>>

\* Lines 122-130: the render test and the compile step.
TCompile(t, compile_ok) ==
    /\ threads[t].pc = "compile"
    /\ LET a == AfterProbe(threads[t].template[1], threads[t].origin[1], compile_ok)
       IN  threads' = [threads EXCEPT ![t] =
                          IF a.store
                          THEN [@ EXCEPT !.pc = "store", !.template = <<a.template>>,
                                         !.origin = None]
                          ELSE [@ EXCEPT !.pc = "done", !.template = <<a.template>>,
                                         !.origin = a.origin]]
    /\ UNCHANGED <<source_capable, flavour, prefix, store, template_cache, cached_loaders, last>>

\* Line 131: the cache assignment.
TStore(t) ==
    /\ threads[t].pc = "store"
    /\ template_cache' = Put(template_cache, threads[t].key, threads[t].template[1])
    /\ threads' = [threads EXCEPT ![t].pc = "return"]
    /\ UNCHANGED <<source_capable, flavour, prefix, store, cached_loaders, last>>

\* Line 135: return self.template_cache[key], None.  Subscripting a
\* dictionary with a key it does not hold raises KeyError.
TReturn(t) ==
    /\ threads[t].pc = "return"
    /\ threads' = [threads EXCEPT ![t] =
                      IF threads[t].key \in DOMAIN template_cache
                      THEN [@ EXCEPT !.pc = "done",
                                     !.template = <<template_cache[threads[t].key]>>,
                                     !.origin = None]
                      ELSE [@ EXCEPT !.pc = "done", !.template = None, !.origin = None,
                                     !.raised = <<"KeyError">>]]
    /\ UNCHANGED <<source_capable, flavour, prefix, store, template_cache, cached_loaders, last>>

\* reset() called by a context that is not inside load_template.
TReset(t) ==
    /\ threads[t].pc \in {"idle", "done"}
    /\ template_cache' = EmptyCache
    /\ UNCHANGED <<source_capable, flavour, prefix, store, cached_loaders, last, threads>>

\* Loader contents for the concurrent calls: the uniform ones, and those in
\* which only the last configured loader holds the templates.
ThreadStores(p) ==
    UniformStores(p) \cup
    {[l \in Loaders |-> [n \in ProbeNames(p) |->
         IF l = find_template_loader(ConfiguredLoaders[Len(ConfiguredLoaders)])
         THEN k ELSE "absent"]] : k \in Kinds}

InitThreads ==
    /\ flavour = None
    /\ prefix \in Prefixes
    /\ store \in ThreadStores(prefix)
    /\ template_cache = EmptyCache
    /\ cached_loaders = <<>>
    /\ last = Call("init")
    /\ threads = [t \in Threads |-> Idle]
    /\ source_capable = Loaders

NextThreads ==
    \E t \in Threads :
        \/ \E n \in Names, d \in DirSeqs, f \in Flavours : TBegin(t, n, d, f)
        \/ TCheck(t)
        \/ TLoaders(t)
        \/ TResolve(t)
        \/ TFind(t)
        \/ \E ok \in BOOLEAN : TCompile(t, ok)
        \/ TStore(t)
        \/ TReturn(t)
        \/ TReset(t)

ThreadSpec == InitThreads /\ [][NextThreads]_vars

\* The concurrent calls with a compile step that always succeeds and
\* without reset.
NextMisses ==
    \E t \in Threads :
        \/ \E n \in Names, d \in DirSeqs, f \in Flavours : TBegin(t, n, d, f)
        \/ TCheck(t)
        \/ TLoaders(t)
        \/ TResolve(t)
        \/ TFind(t)
        \/ TCompile(t, TRUE)
        \/ TStore(t)
        \/ TReturn(t)

MissSpec == InitThreads /\ [][NextMisses]_vars

----------------------------------------------------------------------------
\* The loaders in configured order, as objects.
Configured == [i \in DOMAIN ConfiguredLoaders |-> find_template_loader(ConfiguredLoaders[i])]

\* The flavoured name of the last call.
LastFlavoured == prepare_template_name(last.flavour, prefix, last.name)

\* Loader l has the last call's template under one of the two names.
HasEither(l) == Has(l, LastFlavoured) \/ Has(l, last.name)

\* C1: find_template returns the result of the first loader, in configured
\* order, that has the flavoured or the original name, the flavoured one if
\* that loader has it; the origin names that loader and the name the
\* template was found under.
C1_PerLoaderFallback ==
    last.op = "find_template" =>
        \A i \in DOMAIN Configured :
            (HasEither(Configured[i]) /\ \A j \in 1..(i - 1) : ~HasEither(Configured[j])) =>
                LET l == Configured[i]
                    n == IF Has(l, LastFlavoured) THEN LastFlavoured ELSE last.name
                IN  /\ last.raised = None
                    /\ last.template = <<[loader |-> l, name |-> n,
                                          render |-> store[l][n] = "compiled"]>>
                    /\ last.origin # None
                    /\ last.origin[1].loader = l
                    /\ last.origin[1].name = n
                    /\ last.origin[1].dirs = last.dirs

\* The first loader has only the original name, the second only the
\* flavoured one, and find_template returned the first loader's template.
C1_Witness ==
    /\ last.op = "find_template"
    /\ LastFlavoured # last.name
    /\ Has(Configured[1], last.name) /\ ~Has(Configured[1], LastFlavoured)
    /\ Has(Configured[2], LastFlavoured) /\ ~Has(Configured[2], last.name)
    /\ last.template # None
    /\ last.template[1].loader = Configured[1]
    /\ last.origin[1].name = last.name


\* C2: find_template raises TemplateDoesNotExist, carrying the original name,
\* exactly when no configured loader has the flavoured or the original name;
\* otherwise it returns a template.
C2_NotFoundIffNoLoaderHas ==
    last.op = "find_template" =>
        /\ (last.raised # None) <=> (\A i \in DOMAIN Configured : ~HasEither(Configured[i]))
        /\ last.raised # None => last.raised = <<last.name>> /\ last.template = None
        /\ last.raised = None => last.template # None

\* find_template raised after asking every loader for both names, while a
\* flavour was active.
C2_Witness ==
    /\ last.op = "find_template"
    /\ LastFlavoured # last.name
    /\ last.raised = <<last.name>>
    /\ Len(last.probes) = 2 * Len(Configured)


\* The step is a load_template call with the same name and directories as
\* the call before it, which was a load_template call too.
SameCallAgain(n, d, ok) ==
    /\ last.op = "load_template"
    /\ last.name = n
    /\ last.dirs = d
    /\ LoadTemplate(n, d, ok)

\* The call recorded in last returned a compiled template (it did not raise
\* and did not fall back to the raw source).
ReturnedCompiled ==
    /\ last.raised = None
    /\ last.template # None
    /\ last.template[1].render

\* C3 as stated: a load_template call that repeats the name and directories
\* of the load_template call before it uses the same key and invokes no
\* loader.
C3_AsStated ==
    [][\A n \in Names, d \in DirSeqs, ok \in BOOLEAN :
          SameCallAgain(n, d, ok) =>
              /\ last'.key = last.key
              /\ last'.probes = <<>>]_vars

\* C3 amended: a load_template call that repeats the name and directories
\* of the load_template call before it uses the same key when directories
\* are given or the flavour is the same at both calls; and when the keys
\* are the same and the first call returned a compiled template, the second
\* call is a hit that invokes no loader.
C3_RepeatServedFromCache ==
    [][\A n \in Names, d \in DirSeqs, ok \in BOOLEAN :
          SameCallAgain(n, d, ok) =>
              /\ (d # <<>> \/ last.flavour = flavour) => last'.key = last.key
              /\ (last'.key = last.key /\ ReturnedCompiled) =>
                     /\ last'.hit
                     /\ last'.probes = <<>>
                     /\ last'.template = last.template]_vars

\* A second load_template call with the same name and directories was
\* answered from the cache without a loader call.
C3_Witness ==
    /\ last.op = "load_template"
    /\ last.again
    /\ last.hit
    /\ last.probes = <<>>
    /\ last.key \in DOMAIN template_cache


\* C4: reset leaves the cache empty; a load_template call whose key is not
\* in the cache is a miss that calls the loaders; and a load_template call
\* that follows a reset and asks for a key the reset removed is such a miss
\* and stores the template when it returns a compiled one.
C4_ResetForcesReprobe ==
    /\ last.op = "reset" => template_cache = EmptyCache
    /\ (last.op = "load_template" /\ last.key \notin DOMAIN last.before) =>
           ~last.hit /\ last.probes # <<>>
    /\ (last.op = "load_template" /\ last.evicted) =>
           /\ ~last.hit
           /\ last.before = EmptyCache
           /\ last.probes # <<>>
           /\ ReturnedCompiled =>
                  /\ last.key \in DOMAIN template_cache
                  /\ template_cache[last.key] = last.template[1]

\* A key that was cached before a reset was asked for again after it, probed
\* and stored again.
C4_Witness ==
    /\ last.op = "load_template"
    /\ last.evicted
    /\ last.probes # <<>>
    /\ last.key \in DOMAIN template_cache

\* The template and origin the probe of the last call returns.
LastProbe == find_template(Configured, last.flavour, prefix, last.name, last.dirs)

\* C5: when load_template misses, the probe finds raw source and the compile
\* step signals not-found, the call does not raise, returns the raw source
\* with the probe's origin, and leaves the cache as it was, without the
\* key.
C5_CompileFailureNotCached ==
    (last.op = "load_template" /\ last.compile = "failed") =>
        /\ ~last.hit
        /\ last.raised = None
        /\ last.template = LastProbe.template
        /\ ~last.template[1].render
        /\ last.origin = LastProbe.origin
        /\ last.origin # None
        /\ last.origin[1].loader = last.template[1].loader
        /\ last.origin[1].name = last.template[1].name
        /\ template_cache = last.before
        /\ last.key \notin DOMAIN template_cache

\* A load_template call whose compile step failed, made while the cache
\* held another entry.
C5_Witness ==
    /\ last.op = "load_template"
    /\ last.compile = "failed"
    /\ last.template # None
    /\ last.origin # None
    /\ template_cache # EmptyCache


\* C7: a load_template call that finds its key in the cache calls no loader
\* and no compile step, returns the cached template, which is compiled,
\* with origin None, and leaves the cache unchanged.
C7_HitSkipsProbeAndCompile ==
    (last.op = "load_template" /\ last.key \in DOMAIN last.before) =>
        /\ last.hit
        /\ last.probes = <<>>
        /\ last.compile = "none"
        /\ last.raised = None
        /\ last.template = <<last.before[last.key]>>
        /\ last.template[1].render
        /\ last.origin = None
        /\ template_cache = last.before

\* A load_template call found its key in a cache that held it.
C7_Witness ==
    /\ last.op = "load_template"
    /\ last.key \in DOMAIN last.before
    /\ last.hit
    /\ last.template # None

\* C8: with the flavour None or empty, prepare_template_name returns the
\* name unchanged whatever the prefix, and load_template without directories
\* uses the name as its key.
C8_NoFlavourPassthrough ==
    last.flavour \in {None, <<"">>} =>
        /\ last.op = "prepare_template_name" => last.text = last.name
        /\ (last.op = "load_template" /\ last.dirs = <<>>) => last.key = last.name

\* load_template ran without directories under an empty flavour and a
\* configured prefix, and its key was the name.
C8_Witness ==
    /\ last.op = "load_template"
    /\ last.flavour = <<"">>
    /\ prefix # ""
    /\ last.dirs = <<>>
    /\ last.key = last.name

\* C9: with a present, non-empty flavour F and prefix P, both
\* CachedLoader.prepare_template_name and Loader.prepare_template_name
\* return P + F + "/" + N, which is F + "/" + N when P is empty.
C9_FlavouredName ==
    (/\ last.op \in {"prepare_template_name", "Loader.prepare_template_name"}
     /\ last.flavour \notin {None, <<"">>}) =>
        /\ last.text = prefix \o last.flavour[1] \o "/" \o last.name
        /\ prefix = "" => last.text = last.flavour[1] \o "/" \o last.name

\* CachedLoader.prepare_template_name ran under a flavour and a prefix.
C9_Witness ==
    /\ last.op = "prepare_template_name"
    /\ last.flavour = <<"m">>
    /\ prefix = "p/"
    /\ last.text = "p/m/" \o last.name


\* C6: a load_template call whose membership test found the key never
\* raises, whatever other contexts do meanwhile.
C6_HitNeverRaises ==
    \A t \in Threads : threads[t].hit => threads[t].raised = None

\* C10: two load_template calls for the same name with different non-empty
\* directory sequences use different keys.
C10_DistinctDirsDistinctKeys ==
    [][\A n \in Names, d \in KeyDirSeqs, ok \in BOOLEAN :
          (/\ last.op = "load_template"
           /\ last.name = n
           /\ last.dirs # <<>>
           /\ d # <<>>
           /\ last.dirs # d
           /\ LoadTemplate(n, d, ok)) =>
              last'.key # last.key]_vars

\* The last call was a load_template call that did not meet a failing
\* compile step.
LoadedWithoutCompileFailure ==
    /\ last.op = "load_template"
    /\ last.compile # "failed"

\* C11: a load_template call returns the compiled form of the template that
\* find_template selects for its name and directories under the flavour
\* current at the call, and raises when find_template raises.
C11_CacheTransparent ==
    LoadedWithoutCompileFailure =>
        /\ LastProbe.raised # None => last.raised = LastProbe.raised
        /\ LastProbe.raised = None =>
               /\ last.raised = None
               /\ last.template = <<get_template_from_string(LastProbe.template[1])>>

\* C12: every value in template_cache is a compiled template.
C12_CacheHoldsCompiled ==
    \A k \in DOMAIN template_cache : template_cache[k].render

\* load_template compiled raw source and the cache holds the result.
C12_Witness ==
    /\ last.op = "load_template"
    /\ last.compile = "ok"
    /\ last.key \in DOMAIN template_cache
    /\ template_cache[last.key].render
    /\ store[template_cache[last.key].loader][template_cache[last.key].name] = "source"

\* cache is before with at most the entry for key added.
Extends(cache, before, key) ==
    /\ DOMAIN cache \subseteq DOMAIN before \cup {key}
    /\ \A k \in DOMAIN before : k \in DOMAIN cache /\ cache[k] = before[k]

\* C13: a load_template call leaves every entry it found in place and adds
\* at most the entry for its key; reset leaves no entry; the
\* prepare_template_name and find_template calls leave the cache as it was.
C13_CacheChangesOnlyByStoreAndReset ==
    /\ last.op = "load_template" => Extends(template_cache, last.before, last.key)
    /\ last.op = "reset" => template_cache = EmptyCache
    /\ last.op \in {"prepare_template_name", "Loader.prepare_template_name", "find_template"} =>
           template_cache = last.before

\* load_template added its key to a cache that held another entry.
C13_Witness ==
    /\ last.op = "load_template"
    /\ last.before # EmptyCache
    /\ last.key \notin DOMAIN last.before
    /\ DOMAIN template_cache = DOMAIN last.before \cup {last.key}

\* C14: no configured identifier is resolved twice, and the list a context
\* gets from the loaders property holds the configured loaders, each once,
\* in configured order.
C14_LoadersResolvedOnce ==
    /\ \A i, j \in DOMAIN cached_loaders :
           cached_loaders[i] = cached_loaders[j] => i = j
    /\ \A t \in Threads : threads[t].pc = "find" => cached_loaders = Configured

\* Some loader has the template context t asks for, under the flavoured or
\* the original name.
SomeLoaderHas(t) ==
    \E l \in Loaders :
        \/ Has(l, prepare_template_name(threads[t].flavour, prefix, threads[t].name))
        \/ Has(l, threads[t].name)

\* C15: with a compile step that succeeds and no reset, every finished
\* load_template call for a template some loader has returned a compiled
\* template without raising and its key is in the cache; when all contexts
\* have finished calls for one key, the cache holds under that key the
\* value one of them returned.
C15_ConcurrentMisses ==
    /\ \A t \in Threads :
           (threads[t].pc = "done" /\ SomeLoaderHas(t)) =>
               /\ threads[t].raised = None
               /\ threads[t].template # None
               /\ threads[t].template[1].render
               /\ threads[t].key \in DOMAIN template_cache
    /\ \A k \in DOMAIN template_cache :
           (\A t \in Threads : threads[t].pc = "done" /\ threads[t].key = k
                                /\ threads[t].raised = None) =>
               \E t \in Threads : threads[t].template = <<template_cache[k]>>

\* No loader has name n under the current flavour, flavoured or not.
NoLoaderHas(n) ==
    \A l \in Loaders :
        ~Has(l, prepare_template_name(flavour, prefix, n)) /\ ~Has(l, n)

\* The step is a load_template call that did not find its key.
MissStep ==
    /\ last' # last
    /\ last'.op = "load_template"
    /\ ~last'.hit

\* C16: a load_template call that misses raises TemplateDoesNotExist for
\* its name and leaves the cache as it was, without the key, when no loader
\* has the template under either name; a call whose key is absent calls
\* the loaders, also when the call before it for that key raised, and
\* does not raise when a loader has the template.
C16_NotFoundNotCached ==
    [][MissStep =>
          /\ last'.key \notin DOMAIN template_cache
          /\ last'.probes # <<>>
          /\ NoLoaderHas(last'.name) =>
                 /\ last'.raised = <<last'.name>>
                 /\ last'.template = None
                 /\ template_cache' = template_cache
          /\ ~NoLoaderHas(last'.name) =>
                 /\ last'.raised = None
                 /\ last'.template # None]_vars

\* A load_template call succeeded and stored its template after the call
\* before it, for the same key, had raised.
C16_Witness ==
    /\ last.op = "load_template"
    /\ last.retry
    /\ last.probes # <<>>
    /\ last.raised = None
    /\ last.key \in DOMAIN template_cache
    /\ last.key \notin DOMAIN last.before

\* C17: Loader.prepare_template_name returns what
\* CachedLoader.prepare_template_name returns, and so the name unchanged
\* when the flavour is None or empty.
C17_LoaderPassesNameThrough ==
    last.op = "Loader.prepare_template_name" =>
        /\ last.text = prepare_template_name(last.flavour, prefix, last.name)
        /\ last.flavour \in {None, <<"">>} => last.text = last.name

\* The name the simple Loader asks for in the last call.
LoaderAsked == Loader_prepare_template_name(last.flavour, prefix, last.name)

\* The loaders the last call of the simple Loader may ask.
Eligible(l) == last.op = "Loader.load_template" \/ l \in source_capable

\* The positions of the loaders the last call may ask that come before i.
EligibleBefore(i) == {j \in 1..(i - 1) : Eligible(Configured[j])}

\* C18: Loader.load_template and Loader.load_template_source ask the
\* loaders in configured order for the flavoured name only,
\* load_template_source passing over the loaders without
\* load_template_source; they return the answer of the first loader that
\* has the name and raise TemplateDoesNotExist exactly when none has it.
C18_SimpleLoaderProbes ==
    last.op \in {"Loader.load_template", "Loader.load_template_source"} =>
        /\ \A k \in DOMAIN last.probes :
               /\ last.probes[k].name = LoaderAsked
               /\ last.probes[k].dirs = last.dirs
               /\ \E i \in DOMAIN Configured :
                      /\ last.probes[k].loader = Configured[i]
                      /\ Eligible(Configured[i])
                      /\ Cardinality(EligibleBefore(i)) = k - 1
        /\ (last.raised # None) <=>
               (\A i \in DOMAIN Configured :
                    Eligible(Configured[i]) => ~Has(Configured[i], LoaderAsked))
        /\ last.raised # None =>
               /\ last.raised = <<"Tried " \o LoaderAsked>>
               /\ last.template = None
               /\ Len(last.probes) = Cardinality(EligibleBefore(Len(Configured) + 1))
        /\ \A i \in DOMAIN Configured :
               (/\ Eligible(Configured[i]) /\ Has(Configured[i], LoaderAsked)
                /\ \A j \in EligibleBefore(i) : ~Has(Configured[j], LoaderAsked)) =>
                   /\ last.template # None
                   /\ last.template[1].loader = Configured[i]
                   /\ last.template[1].name = LoaderAsked
                   /\ Len(last.probes) = Cardinality(EligibleBefore(i)) + 1

\* load_template_source passed over a first loader that has the flavoured
\* name but no load_template_source, and returned the second loader's
\* source, while the original name was there to be found as well.
C18_Witness ==
    /\ last.op = "Loader.load_template_source"
    /\ Configured[1] \notin source_capable
    /\ Has(Configured[1], LoaderAsked)
    /\ Has(Configured[1], last.name)
    /\ last.template # None
    /\ last.template[1].loader = Configured[2]
    /\ Len(last.probes) = 1

====
